---- MODULE Spec2Model ----
(***************************************************************************)
(* State-machine model of the demand service of src/server.js (the         *)
(* hardened service, lines 1-808): the demandas table, the audit log, the  *)
(* snapshot index and files, and the HTTP handlers with their completion   *)
(* callbacks.  A handler step is one callback of the source; statements    *)
(* of different requests interleave between callbacks.                     *)
(*                                                                         *)
(* The database file and the backups directory outlive the process         *)
(* (CREATE TABLE IF NOT EXISTS, fs.existsSync), so Init ranges over a      *)
(* bounded set of databases that satisfy the schema's constraints.         *)
(*                                                                         *)
(* Columns kept of a demandas row: id, tag, status, funcionarioId,         *)
(* dataCriacao, criadoPor, diasSemana, dataAtualizacao, atualizadoPor.     *)
(* Time is a logical clock `now` counted in days.  The read-only endpoints *)
(* health, statistics and backup listing and the 30-day purge of the index *)
(* are left out; store-level I/O errors are modelled for the audit INSERT  *)
(* and for the snapshot's read and file write.                             *)
(***************************************************************************)
EXTENDS Integers, Sequences, FiniteSets, TLC

VARIABLES
    demandas,    \* table demandas: a set of rows
    seq,         \* table sqlite_sequence: the AUTOINCREMENT high-water mark per table
    auditoria,   \* table auditoria: a set of entries
    backups,     \* table backups (the snapshot index): a set of rows
    files,       \* backups directory: file name -> content
    writes,      \* UPDATE / DELETE statements issued and not yet executed
    audits,      \* INSERT INTO auditoria statements issued and not yet executed
    snaps,       \* criarBackup calls in flight, one record per pending callback
    restores,    \* restore statements in flight (the DELETE, then the INSERTs)
    counts,      \* list requests waiting for their COUNT query
    last,        \* the response sent most recently
    listResp,    \* the body of the most recent list response
    searches,    \* search requests waiting for their SELECT
    searchResp,  \* the body of the most recent search response
    proc,        \* "running", or "exited" after process.exit
    nextOp,      \* number of requests, timer firings and signals so far
    now          \* the clock

vars == <<demandas, seq, auditoria, backups, files, writes, audits, snaps,
          restores, counts, last, listResp, searches, searchResp, proc, nextOp, now>>

-----------------------------------------------------------------------------
(* Bounds of the model *)

MaxOps == 2
MaxClock == 1
MaxEnc == 3

(* Program constants *)

KeepAuto == 10
CreateColumns == 18
CreatePlaceholders == 17
RestoreColumns == 19
RestorePlaceholders == 18
MinNome == 3
MinDescricao == 10
MinQuery == 2

-----------------------------------------------------------------------------
(* JavaScript values *)

\* A number, undefined or NaN, as one comparable shape.
JsNum(n) == [t |-> "number", v |-> n]
JsUndefined == [t |-> "undefined", v |-> 0]
JsNaN == [t |-> "NaN", v |-> 0]

\* row[name] of a result row: undefined when the row has no such key.
Field(row, name) == IF name \in DOMAIN row THEN JsNum(row[name]) ELSE JsUndefined

\* Math.ceil(a / n) for n >= 1: NaN when a is not a number.
CeilDiv(a, n) == IF a.t = "number" THEN JsNum((a.v + n - 1) \div n) ELSE JsNaN

\* A repeated character: a string of length n.
Rep(c, n) == [i \in 1..n |-> c]

RECURSIVE TrimLeft(_)
TrimLeft(s) == IF s # <<>> /\ Head(s) = " " THEN TrimLeft(Tail(s)) ELSE s

RECURSIVE TrimRight(_)
TrimRight(s) ==
    IF s # <<>> /\ s[Len(s)] = " " THEN TrimRight(SubSeq(s, 1, Len(s) - 1)) ELSE s

\* String.prototype.trim
Trim(s) == TrimRight(TrimLeft(s))

\* A list field (diasSemana): -1 is null, 0 a JavaScript array, k >= 1 the
\* text obtained by applying JSON.stringify k times to the array.
NullList == 0 - 1
Truthy(v) == v >= 0
Stringify(v) == v + 1

\* value ? JSON.stringify(value) : null
ListParam(v) == IF Truthy(v) THEN Stringify(v) ELSE NullList

-----------------------------------------------------------------------------
(* Request bodies: records that hold only the keys the caller sent *)

Has(d, f) == f \in DOMAIN d

\* { ...a, ...b }
Spread(a, b) ==
    [f \in DOMAIN a \cup DOMAIN b |-> IF f \in DOMAIN b THEN b[f] ELSE a[f]]

\* delete o.k for every k in ks
Without(o, ks) == [f \in DOMAIN o \ ks |-> o[f]]

\* The elements of a list.
Range(f) == {f[i] : i \in DOMAIN f}

Prioridades == {"Importante", "Media", "Relevante"}
Complexidades == {"Facil", "Medio", "Dificil"}

\* The day a dataLimite names, relative to the day the model starts.
BaseBody ==
    [nomeDemanda |-> <<"F", "i", "x">>, categoria |-> "Manutencao",
     prioridade |-> "Importante", complexidade |-> "Facil",
     descricao |-> Rep("x", MinDescricao), local |-> "Bloco A",
     dataLimite |-> MaxClock + 1]

\* Bodies that break one rule each, and one that breaks several.
InvalidBodies ==
    { Without(BaseBody, {"nomeDemanda"}),
      Spread(BaseBody, [nomeDemanda |-> <<"a", "b">>]),
      Spread(BaseBody, [nomeDemanda |-> <<" ", "a", "b", " ">>]),
      Without(BaseBody, {"categoria"}),
      Spread(BaseBody, [prioridade |-> "Alta"]),
      Without(BaseBody, {"complexidade"}),
      Spread(BaseBody, [descricao |-> Rep("x", MinDescricao - 1)]),
      Spread(BaseBody, [local |-> ""]),
      Without(BaseBody, {"dataLimite"}),
      Spread(BaseBody, [dataLimite |-> 0 - 1, tag |-> "T1", status |-> "aprovada"]),
      [tag |-> "T2", funcionarioId |-> 1] }

\* Bodies that pass on the first day: the optional keys a caller may add,
\* among them the keys an update must not change.
ValidBodies ==
    { BaseBody,
      Spread(BaseBody, [funcionarioId |-> 2, tag |-> "T1", status |-> "aprovada"]),
      Spread(BaseBody, [funcionarioId |-> 1, tag |-> "T3", id |-> 2, dataCriacao |-> 9,
                        criadoPor |-> 2, diasSemana |-> 0]),
      Spread(BaseBody, [nomeDemanda |-> <<" ", "a", "b", "c">>, dataLimite |-> 0,
                        funcionarioId |-> 2, status |-> "reprovada"]) }

Bodies == InvalidBodies \cup ValidBodies

-----------------------------------------------------------------------------
(* validarDemanda: the list of violations of a body on day hoje *)

\* !value for a key that holds a name (an opaque text) and for one that holds
\* a text whose characters matter: absent or empty.
Falsy(d, f) == ~Has(d, f) \/ d[f] = ""
FalsyText(d, f) == ~Has(d, f) \/ d[f] = <<>>

\* validarDemanda without its check of local.
validarDemandaSemLocal(d, hoje) ==
    (IF FalsyText(d, "nomeDemanda") \/ Len(Trim(d.nomeDemanda)) < MinNome
        THEN {"nomeDemanda"} ELSE {})
    \cup (IF Falsy(d, "categoria") THEN {"categoria"} ELSE {})
    \cup (IF Falsy(d, "prioridade") \/ d.prioridade \notin Prioridades
        THEN {"prioridade"} ELSE {})
    \cup (IF Falsy(d, "complexidade") \/ d.complexidade \notin Complexidades
        THEN {"complexidade"} ELSE {})
    \cup (IF FalsyText(d, "descricao") \/ Len(Trim(d.descricao)) < MinDescricao
        THEN {"descricao"} ELSE {})
    \cup (IF ~Has(d, "dataLimite") THEN {"dataLimite"}
          ELSE IF d.dataLimite < hoje THEN {"dataLimiteAnterior"} ELSE {})

validarDemanda(d, hoje) ==
    (IF FalsyText(d, "nomeDemanda") \/ Len(Trim(d.nomeDemanda)) < MinNome
        THEN {"nomeDemanda"} ELSE {})
    \cup (IF Falsy(d, "categoria") THEN {"categoria"} ELSE {})
    \cup (IF Falsy(d, "prioridade") \/ d.prioridade \notin Prioridades
        THEN {"prioridade"} ELSE {})
    \cup (IF Falsy(d, "complexidade") \/ d.complexidade \notin Complexidades
        THEN {"complexidade"} ELSE {})
    \cup (IF FalsyText(d, "descricao") \/ Len(Trim(d.descricao)) < MinDescricao
        THEN {"descricao"} ELSE {})
    \cup (IF Falsy(d, "local") THEN {"local"} ELSE {})
    \cup (IF ~Has(d, "dataLimite") THEN {"dataLimite"}
          ELSE IF d.dataLimite < hoje THEN {"dataLimiteAnterior"} ELSE {})

-----------------------------------------------------------------------------
(* The database a start of the process may find *)

\* SQL NULL in a text column and in an integer column.
NullText == "<null>"
NullInt == 0

R1 == [id |-> 1, tag |-> "T1", status |-> "pendente", funcionarioId |-> 1,
       dataCriacao |-> 0 - 3, criadoPor |-> 1, diasSemana |-> 1,
       dataAtualizacao |-> 0 - 3, atualizadoPor |-> NullInt]
R2 == [id |-> 2, tag |-> "T2", status |-> "aprovada", funcionarioId |-> 2,
       dataCriacao |-> 0 - 2, criadoPor |-> 2, diasSemana |-> NullList,
       dataAtualizacao |-> 0 - 1, atualizadoPor |-> 1]
Ids(T) == {r.id : r \in T}
MaxOf(S) == IF S = {} THEN 0 ELSE CHOOSE m \in S : \A x \in S : x <= m

\* The rows of a table in rowid order, as SELECT * returns them.
RECURSIVE ById(_)
ById(T) ==
    IF T = {} THEN <<>>
    ELSE LET r == CHOOSE x \in T : \A y \in T : x.id <= y.id
         IN  <<r>> \o ById(T \ {r})

\* File names: backup_<tipo>_<timestamp>.json
FileName(tipo, stamp) == [tipo |-> tipo, stamp |-> stamp]

\* File contents: the envelope criarBackup writes, an envelope without its
\* record list, or text that JSON.parse rejects.
Envelope(tipo, stamp, rows) ==
    [json |-> TRUE, hasList |-> TRUE, tipo |-> tipo, data |-> stamp,
     totalDemandas |-> Len(rows), demandas |-> rows]
NoListFile == [json |-> TRUE, hasList |-> FALSE, tipo |-> "manual", data |-> 0,
               totalDemandas |-> 0, demandas |-> <<>>]
GarbageFile == [json |-> FALSE, hasList |-> FALSE, tipo |-> "", data |-> 0,
                totalDemandas |-> 0, demandas |-> <<>>]

BackupRow(id, name, tamanho, tipo, criado) ==
    [id |-> id, nomeArquivo |-> name, tamanho |-> tamanho, tipo |-> tipo,
     dataCriacao |-> criado]

\* An index found at start.  KeepAuto + 1 automatic snapshots, one per day,
\* whose files are gone; then a good snapshot of {R1, R2}, a garbage file, an
\* envelope without list, and a row whose file is gone.
AutoIndex ==
    { BackupRow(i, FileName("auto", i - KeepAuto - 3), 1, "auto", i - KeepAuto - 3)
        : i \in 1..(KeepAuto + 1) }
GoodId == KeepAuto + 2
GarbageId == KeepAuto + 3
NoListId == KeepAuto + 4
GoneId == KeepAuto + 5
UnknownId == KeepAuto + 6
ManualIndex ==
    { BackupRow(GoodId, FileName("manual", 0 - 4), 2, "manual", 0 - 4),
      BackupRow(GarbageId, FileName("manual", 0 - 3), 1, "manual", 0 - 3),
      BackupRow(NoListId, FileName("manual", 0 - 2), 1, "manual", 0 - 2),
      BackupRow(GoneId, FileName("manual", 0 - 1), 1, "manual", 0 - 1) }
ManualFiles ==
    (FileName("manual", 0 - 4) :> Envelope("manual", 0 - 4, <<R1, R2>>))
    @@ (FileName("manual", 0 - 3) :> GarbageFile)
    @@ (FileName("manual", 0 - 2) :> NoListFile)

NoFiles == [n \in {} |-> GarbageFile]

\* A fresh installation, and a database with two demands and the index above.
InitStores ==
    { [demandas |-> {}, backups |-> {}, files |-> NoFiles],
      [demandas |-> {R1, R2}, backups |-> AutoIndex \cup ManualIndex,
       files |-> ManualFiles] }

NoResponse ==
    [op |-> 0, kind |-> "none", status |-> 0, valid |-> FALSE, id |-> 0]
NoList ==
    [op |-> 0, page |-> 0, limit |-> 0, rows |-> <<>>, total |-> JsUndefined,
     pages |-> JsUndefined, offered |-> <<>>]

NoSearch == [op |-> 0, q |-> "", data |-> <<>>]

Init ==
    /\ \E s \in InitStores :
         /\ demandas = s.demandas
         /\ backups = s.backups
         /\ files = s.files
    /\ seq = [demandas |-> MaxOf(Ids(demandas)), backups |-> MaxOf(Ids(backups))]
    /\ auditoria = {}
    /\ writes = {}
    /\ audits = {}
    /\ snaps = {}
    /\ restores = {}
    /\ counts = {}
    /\ last = NoResponse
    /\ listResp = NoList
    /\ searches = {}
    /\ searchResp = NoSearch
    /\ proc = "running"
    /\ nextOp = 0
    /\ now = 0

\* Callbacks run until process.exit.
Alive == proc = "running"

-----------------------------------------------------------------------------
(* SQL statements on demandas *)

\* A statement compiles only when it supplies one value per named column.
PrepareOK(columns, placeholders) == columns = placeholders

\* UniqueTagOK of a column declared without UNIQUE.
UniqueTagNone(T, id, tag) == TRUE

\* tag TEXT UNIQUE: no other row holds the same non-null tag.
UniqueTagOK(T, id, tag) ==
    tag = NullText \/ \A r \in T : r.id = id \/ r.tag # tag

\* The NOT NULL columns kept by the model.
NotNullOK(row) == row.funcionarioId # NullInt /\ row.status # NullText

\* A body key bound as a statement parameter: undefined binds NULL.
IntParam(d, f) == IF Has(d, f) THEN d[f] ELSE NullInt

\* a || b for texts
OrText(d, f, dflt) == IF Falsy(d, f) THEN dflt ELSE d[f]

\* DEM-<Date.now()>-<random>: a tag no stored row holds.
GeneratedTag(op) == "DEM-" \o ToString(op)

\* The row POST /api/demandas binds, before the store assigns its id.
CreateParams(d, tag, hoje) ==
    [id |-> 0, tag |-> tag, status |-> OrText(d, "status", "pendente"),
     funcionarioId |-> IntParam(d, "funcionarioId"),
     dataCriacao |-> IF Has(d, "dataCriacao") THEN d.dataCriacao ELSE hoje,
     criadoPor |-> IntParam(d, "funcionarioId"),
     diasSemana |-> IF Has(d, "diasSemana") THEN ListParam(d.diasSemana) ELSE NullList,
     dataAtualizacao |-> hoje, atualizadoPor |-> NullInt]

\* INSERT INTO demandas: the table and sequence after it, and whether it ran.
InsertDemanda(T, s, columns, placeholders, row) ==
    IF PrepareOK(columns, placeholders) /\ NotNullOK(row)
       /\ UniqueTagOK(T, 0, row.tag)
    THEN [ok |-> TRUE, table |-> T \cup {[row EXCEPT !.id = s + 1]}, seq |-> s + 1]
    ELSE [ok |-> FALSE, table |-> T, seq |-> s]

\* const dadosCompletos = { ...demandaExistente, ...d } without the protected
\* keys, stamped with the modification date and the acting user.
ProtectedKeys == {"id", "dataCriacao", "criadoPor"}
DadosCompletos(existente, d, hoje) ==
    Spread(Without(Spread(existente, d), ProtectedKeys),
           [dataAtualizacao |-> hoje, atualizadoPor |-> IntParam(d, "funcionarioId")])

\* UpdatedRow with the creator overwritten by the acting user.
UpdatedRowCreator(row, dados) ==
    [row EXCEPT !.funcionarioId = dados.funcionarioId,
                !.status = dados.status,
                !.diasSemana = ListParam(dados.diasSemana),
                !.tag = dados.tag,
                !.dataAtualizacao = dados.dataAtualizacao,
                !.atualizadoPor = dados.atualizadoPor,
                !.criadoPor = dados.atualizadoPor]

\* The row UPDATE demandas SET ... WHERE id = ? leaves in place of row.
UpdatedRow(row, dados) ==
    [row EXCEPT !.funcionarioId = dados.funcionarioId,
                !.status = dados.status,
                !.diasSemana = ListParam(dados.diasSemana),
                !.tag = dados.tag,
                !.dataAtualizacao = dados.dataAtualizacao,
                !.atualizadoPor = dados.atualizadoPor]

Response(op, kind, status, valid, id) ==
    [op |-> op, kind |-> kind, status |-> status, valid |-> valid, id |-> id]

\* registrarAuditoria: the INSERT INTO auditoria it issues.
registrarAuditoria(op, acao, registroId, antigos, novos) ==
    [op |-> op, acao |-> acao, registroId |-> registroId,
     dadosAntigos |-> antigos, dadosNovos |-> novos]

\* dadosAntigos || {} and dadosNovos || {} for a null argument
EmptyObject == [f \in {} |-> 0]

\* criarBackup(tipo, callback): its first statement, SELECT * FROM demandas.
criarBackup(op, tipo, cb, hoje) ==
    [op |-> op, tipo |-> tipo, cb |-> cb, stage |-> "read",
     name |-> FileName(tipo, hoje), rows |-> <<>>, ids |-> {}]

-----------------------------------------------------------------------------
(* POST /api/demandas *)

CriticalStatus == {"aprovada", "reprovada"}

CreateDemanda(d) ==
    /\ Alive
    /\ nextOp < MaxOps
    /\ nextOp' = nextOp + 1
    /\ LET op == nextOp + 1
           erros == validarDemanda(d, now)
           tag == IF Falsy(d, "tag") THEN GeneratedTag(op) ELSE d.tag
           ins == InsertDemanda(demandas, seq.demandas, CreateColumns,
                                CreatePlaceholders, CreateParams(d, tag, now))
       IN  IF erros # {}
           THEN /\ last' = Response(op, "create", 400, FALSE, 0)
                /\ UNCHANGED <<demandas, seq, audits, snaps>>
           ELSE IF ~ins.ok
           THEN /\ last' = Response(op, "create", 500, TRUE, 0)
                /\ UNCHANGED <<demandas, seq, audits, snaps>>
           ELSE /\ demandas' = ins.table
                /\ seq' = [seq EXCEPT !.demandas = ins.seq]
                /\ audits' = audits \cup
                     {registrarAuditoria(op, "CREATE", ins.seq, EmptyObject,
                                         Spread(d, [tag |-> tag]))}
                /\ snaps' = snaps \cup {criarBackup(op, "auto", "none", now)}
                /\ last' = Response(op, "create", 200, TRUE, ins.seq)
    /\ UNCHANGED <<auditoria, backups, files, writes, restores, counts, listResp, searches,
                   searchResp, proc, now>>

-----------------------------------------------------------------------------
(* PUT /api/demandas/:id *)

\* The handler up to its UPDATE: validation, then SELECT ... WHERE id = ?.
UpdateDemanda(id, d) ==
    /\ Alive
    /\ nextOp < MaxOps
    /\ nextOp' = nextOp + 1
    /\ LET op == nextOp + 1
           erros == validarDemanda(d, now)
           found == {r \in demandas : r.id = id}
       IN  IF erros # {}
           THEN /\ last' = Response(op, "update", 400, FALSE, id)
                /\ UNCHANGED writes
           ELSE IF found = {}
           THEN /\ last' = Response(op, "update", 404, TRUE, id)
                /\ UNCHANGED writes
           ELSE LET demandaExistente == CHOOSE r \in found : TRUE
                    dados == DadosCompletos(demandaExistente, d, now)
                IN  /\ dados.diasSemana < MaxEnc
                    /\ writes' = writes \cup
                         {[op |-> op, kind |-> "update", id |-> id, d |-> d,
                           existente |-> demandaExistente, dados |-> dados,
                           critical |-> Has(d, "status") /\ d.status \in CriticalStatus]}
                    /\ UNCHANGED last
    /\ UNCHANGED <<demandas, seq, auditoria, backups, files, audits, snaps, restores,
                   counts, listResp, searches,
                   searchResp, proc, now>>

\* The UPDATE and its callback.
UpdateWrite(w) ==
    /\ Alive
    /\ w \in writes
    /\ w.kind = "update"
    /\ writes' = writes \ {w}
    /\ LET found == {r \in demandas : r.id = w.id}
           ok == \A r \in found :
                    /\ UniqueTagOK(demandas, w.id, w.dados.tag)
                    /\ NotNullOK(UpdatedRow(r, w.dados))
       IN  IF ~ok
           THEN /\ last' = Response(w.op, "update", 500, TRUE, w.id)
                /\ UNCHANGED <<demandas, audits, snaps>>
           ELSE /\ demandas' = (demandas \ found)
                                 \cup {UpdatedRow(r, w.dados) : r \in found}
                /\ audits' = audits \cup
                     {registrarAuditoria(w.op, "UPDATE", w.id, w.existente, w.dados)}
                /\ snaps' = IF w.critical
                            THEN snaps \cup {criarBackup(w.op, "status_change", "none", now)}
                            ELSE snaps
                /\ last' = Response(w.op, "update", 200, TRUE, w.id)
    /\ UNCHANGED <<seq, auditoria, backups, files, restores, counts, listResp, searches,
                   searchResp, proc,
                   nextOp, now>>

-----------------------------------------------------------------------------
(* DELETE /api/demandas/:id *)

\* DeleteDemanda without the existence check before its DELETE.
DeleteDemandaUnchecked(id) ==
    /\ Alive
    /\ nextOp < MaxOps
    /\ nextOp' = nextOp + 1
    /\ writes' = writes \cup
         {[op |-> nextOp + 1, kind |-> "delete", id |-> id, d |-> EmptyObject,
           existente |-> R1, dados |-> EmptyObject, critical |-> FALSE]}
    /\ UNCHANGED <<demandas, seq, auditoria, backups, files, audits, snaps, restores,
                   counts, last, listResp, searches,
                   searchResp, proc, now>>

DeleteDemanda(id) ==
    /\ Alive
    /\ nextOp < MaxOps
    /\ nextOp' = nextOp + 1
    /\ LET op == nextOp + 1
           found == {r \in demandas : r.id = id}
       IN  IF found = {}
           THEN /\ last' = Response(op, "delete", 404, TRUE, id)
                /\ UNCHANGED writes
           ELSE /\ writes' = writes \cup
                     {[op |-> op, kind |-> "delete", id |-> id, d |-> EmptyObject,
                       existente |-> CHOOSE r \in found : TRUE,
                       dados |-> EmptyObject, critical |-> FALSE]}
                /\ UNCHANGED last
    /\ UNCHANGED <<demandas, seq, auditoria, backups, files, audits, snaps, restores,
                   counts, listResp, searches,
                   searchResp, proc, now>>

DeleteWrite(w) ==
    /\ Alive
    /\ w \in writes
    /\ w.kind = "delete"
    /\ writes' = writes \ {w}
    /\ demandas' = {r \in demandas : r.id # w.id}
    /\ audits' = audits \cup
         {registrarAuditoria(w.op, "DELETE", w.id, w.existente, EmptyObject)}
    /\ snaps' = snaps \cup {criarBackup(w.op, "delete", "none", now)}
    /\ last' = Response(w.op, "delete", 200, TRUE, w.id)
    /\ UNCHANGED <<seq, auditoria, backups, files, restores, counts, listResp, searches,
                   searchResp, proc,
                   nextOp, now>>

-----------------------------------------------------------------------------
(* The audit INSERT, which may fail *)

AuditInsert(a, ok) ==
    /\ Alive
    /\ a \in audits
    /\ audits' = audits \ {a}
    /\ auditoria' = IF ok THEN auditoria \cup {a} ELSE auditoria
    /\ UNCHANGED <<demandas, seq, backups, files, writes, snaps, restores, counts,
                   last, listResp, searches,
                   searchResp, proc, nextOp, now>>

-----------------------------------------------------------------------------
(* criarBackup, one action per callback *)

\* Callback of a criarBackup whose every caller fails its request on error.
CallbackFailsRequest(s, err) ==
    /\ last' = IF s.cb = "http" \/ err
               THEN Response(s.op, "backup", IF err THEN 500 ELSE 200, TRUE, 0)
               ELSE last
    /\ proc' = IF s.cb = "sigint" THEN "exited" ELSE proc

\* What criarBackup's caller does with callback(err, filename): POST
\* /api/backup answers, the SIGINT handler exits, the other callers pass none.
Callback(s, err) ==
    /\ last' = IF s.cb = "http"
               THEN Response(s.op, "backup", IF err THEN 500 ELSE 200, TRUE, 0)
               ELSE last
    /\ proc' = IF s.cb = "sigint" THEN "exited" ELSE proc

\* db.all('SELECT * FROM demandas'), which may fail.
SnapRead(s, ok) ==
    /\ Alive
    /\ s \in snaps
    /\ s.stage = "read"
    /\ IF ok
       THEN /\ snaps' = (snaps \ {s}) \cup
                  {[s EXCEPT !.stage = "write", !.rows = ById(demandas)]}
            /\ UNCHANGED <<last, proc>>
       ELSE /\ snaps' = snaps \ {s}
            /\ Callback(s, TRUE)
    /\ UNCHANGED <<demandas, seq, auditoria, backups, files, writes, audits, restores,
                   counts, listResp, searches, searchResp, nextOp, now>>

\* backupData.length of the envelope object, bound as the tamanho parameter.
BackupTamanho(envelope) == Field(envelope, "length")

\* INSERT INTO backups: tamanho INTEGER NOT NULL rejects an unbound parameter.
\* The index and its sequence after the statement.
InsertBackup(B, s, name, tamanho, tipo, hoje) ==
    IF tamanho.t = "number"
    THEN [table |-> B \cup {BackupRow(s + 1, name, tamanho.v, tipo, hoje)},
          seq |-> s + 1]
    ELSE [table |-> B, seq |-> s]

\* fs.writeFile, which may fail; on success the index INSERT and, for auto,
\* the pruning SELECT are issued and the callback reports the file name.
SnapWrite(s, ok) ==
    /\ Alive
    /\ s \in snaps
    /\ s.stage = "write"
    /\ IF ok
       THEN /\ files' = [n \in DOMAIN files \cup {s.name} |->
                           IF n = s.name THEN Envelope(s.tipo, s.name.stamp, s.rows)
                           ELSE files[n]]
            /\ snaps' = (snaps \ {s})
                  \cup {[s EXCEPT !.stage = "register"]}
                  \cup (IF s.tipo = "auto" THEN {[s EXCEPT !.stage = "prune"]} ELSE {})
            /\ Callback(s, FALSE)
       ELSE /\ snaps' = snaps \ {s}
            /\ Callback(s, TRUE)
            /\ UNCHANGED files
    /\ UNCHANGED <<demandas, seq, auditoria, backups, writes, audits, restores,
                   counts, listResp, searches, searchResp, nextOp, now>>

SnapRegister(s) ==
    /\ Alive
    /\ s \in snaps
    /\ s.stage = "register"
    /\ snaps' = snaps \ {s}
    /\ LET ins == InsertBackup(backups, seq.backups, s.name,
                               BackupTamanho(Envelope(s.tipo, s.name.stamp, s.rows)),
                               s.tipo, now)
       IN  /\ backups' = ins.table
           /\ seq' = [seq EXCEPT !.backups = ins.seq]
    /\ UNCHANGED <<demandas, auditoria, files, writes, audits, restores, counts,
                   last, listResp, searches,
                   searchResp, proc, nextOp, now>>

\* SELECT id FROM backups WHERE tipo = "auto" ORDER BY dataCriacao DESC
\* LIMIT keep, 999999: the possible results, ties in either order.
AutoRows(B) == {b \in B : b.tipo = "auto"}
BeyondNewest(B, keep) ==
    { R \in SUBSET AutoRows(B) :
        /\ Cardinality(R) = IF Cardinality(AutoRows(B)) > keep
                            THEN Cardinality(AutoRows(B)) - keep ELSE 0
        /\ \A r \in R : \A b \in AutoRows(B) \ R : r.dataCriacao <= b.dataCriacao }

\* DELETE FROM backups WHERE tipo = "auto" AND id NOT IN (ids)
PruneDelete(B, ids) == {b \in B : ~(b.tipo = "auto" /\ b.id \notin ids)}

SnapPruneSelect(s) ==
    /\ Alive
    /\ s \in snaps
    /\ s.stage = "prune"
    /\ \E R \in BeyondNewest(backups, KeepAuto) :
         snaps' = (snaps \ {s}) \cup
            (IF R # {} THEN {[s EXCEPT !.stage = "delete", !.ids = {r.id : r \in R}]}
             ELSE {})
    /\ UNCHANGED <<demandas, seq, auditoria, backups, files, writes, audits, restores,
                   counts, last, listResp, searches,
                   searchResp, proc, nextOp, now>>

SnapPruneDelete(s) ==
    /\ Alive
    /\ s \in snaps
    /\ s.stage = "delete"
    /\ snaps' = snaps \ {s}
    /\ backups' = PruneDelete(backups, s.ids)
    /\ UNCHANGED <<demandas, seq, auditoria, files, writes, audits, restores, counts,
                   last, listResp, searches,
                   searchResp, proc, nextOp, now>>

\* POST /api/backup
BackupRequest(tipo) ==
    /\ Alive
    /\ nextOp < MaxOps
    /\ nextOp' = nextOp + 1
    /\ snaps' = snaps \cup {criarBackup(nextOp + 1, tipo, "http", now)}
    /\ UNCHANGED <<demandas, seq, auditoria, backups, files, writes, audits, restores,
                   counts, last, listResp, searches,
                   searchResp, proc, now>>

\* setInterval(..., 6 h): the automatic snapshot
AutoBackupTimer ==
    /\ Alive
    /\ nextOp < MaxOps
    /\ nextOp' = nextOp + 1
    /\ snaps' = snaps \cup {criarBackup(nextOp + 1, "auto", "none", now)}
    /\ UNCHANGED <<demandas, seq, auditoria, backups, files, writes, audits, restores,
                   counts, last, listResp, searches,
                   searchResp, proc, now>>

Tick ==
    /\ Alive
    /\ now < MaxClock
    /\ now' = now + 1
    /\ UNCHANGED <<demandas, seq, auditoria, backups, files, writes, audits, snaps,
                   restores, counts, last, listResp, searches,
                   searchResp, proc, nextOp>>

-----------------------------------------------------------------------------
(* POST /api/restore *)

\* The row one INSERT of the restore binds from a record of the backup.
RestoreParams(demanda) ==
    [id |-> 0, tag |-> demanda.tag, status |-> demanda.status,
     funcionarioId |-> demanda.funcionarioId, dataCriacao |-> demanda.dataCriacao,
     criadoPor |-> demanda.criadoPor, diasSemana |-> ListParam(demanda.diasSemana),
     dataAtualizacao |-> now, atualizadoPor |-> NullInt]

\* The handler up to its DELETE: the id check, the index lookup, the file read.
\* An envelope without a record list ends the handler with no response.
RestoreBackup(backupId) ==
    /\ Alive
    /\ nextOp < MaxOps
    /\ nextOp' = nextOp + 1
    /\ LET op == nextOp + 1
           found == {b \in backups : b.id = backupId}
       IN  IF backupId = 0
           THEN /\ last' = Response(op, "restore", 400, FALSE, backupId)
                /\ UNCHANGED restores
           ELSE IF found = {}
           THEN /\ last' = Response(op, "restore", 404, TRUE, backupId)
                /\ UNCHANGED restores
           ELSE LET backup == CHOOSE b \in found : TRUE
                    readable == backup.nomeArquivo \in DOMAIN files
                                  /\ files[backup.nomeArquivo].json
                IN  IF ~readable
                    THEN /\ last' = Response(op, "restore", 500, TRUE, backupId)
                         /\ UNCHANGED restores
                    ELSE IF ~files[backup.nomeArquivo].hasList
                    THEN /\ last' = Response(op, "restore", 0, TRUE, backupId)
                         /\ UNCHANGED restores
                    ELSE /\ restores' = restores \cup
                              {[op |-> op, stage |-> "delete", backupId |-> backupId,
                                index |-> 0,
                                demandas |-> files[backup.nomeArquivo].demandas]}
                         /\ UNCHANGED last
    /\ UNCHANGED <<demandas, seq, auditoria, backups, files, writes, audits, snaps,
                   counts, listResp, searches,
                   searchResp, proc, now>>

\* DELETE FROM demandas and its callback: one INSERT per record is issued and
\* the request is answered.
RestoreDelete(r) ==
    /\ Alive
    /\ r \in restores
    /\ r.stage = "delete"
    /\ demandas' = {}
    /\ restores' = (restores \ {r}) \cup
          {[r EXCEPT !.stage = "insert", !.index = i] : i \in 1..Len(r.demandas)}
    /\ last' = Response(r.op, "restore", 200, TRUE, r.backupId)
    /\ UNCHANGED <<seq, auditoria, backups, files, writes, audits, snaps, counts,
                   listResp, searches,
                   searchResp, proc, nextOp, now>>

\* One INSERT of the restore; its error is logged and nothing else.
RestoreInsert(r) ==
    /\ Alive
    /\ r \in restores
    /\ r.stage = "insert"
    /\ restores' = restores \ {r}
    /\ LET ins == InsertDemanda(demandas, seq.demandas, RestoreColumns,
                                RestorePlaceholders, RestoreParams(r.demandas[r.index]))
       IN  /\ demandas' = ins.table
           /\ seq' = [seq EXCEPT !.demandas = ins.seq]
    /\ UNCHANGED <<auditoria, backups, files, writes, audits, snaps, counts, last,
                   listResp, searches,
                   searchResp, proc, nextOp, now>>

-----------------------------------------------------------------------------
(* GET /api/demandas *)

\* The rows that pass the status filter ("" is no filter).
Matching(T, status) == {r \in T : status = "" \/ r.status = status}

\* ORDER BY dataCriacao <direction>: every order of the rows that the clause
\* allows, rows with equal keys in either order.
Ordered(S, asc) ==
    { f \in [1..Cardinality(S) -> S] :
        /\ \A i, j \in 1..Cardinality(S) : i # j => f[i] # f[j]
        /\ \A i, j \in 1..Cardinality(S) :
             i < j => IF asc THEN f[i].dataCriacao <= f[j].dataCriacao
                      ELSE f[i].dataCriacao >= f[j].dataCriacao }

\* orderDirection.toUpperCase() === 'ASC'
ToUpperCase(x) == IF x = "asc" THEN "ASC" ELSE IF x = "desc" THEN "DESC" ELSE x

\* LIMIT limit OFFSET offset on an ordered result, for limit, offset >= 0.
LimitOffset(rows, limit, offset) ==
    SubSeq(rows, offset + 1, IF offset + limit < Len(rows) THEN offset + limit
                             ELSE Len(rows))

\* The handler up to its COUNT query: the page query runs.
ListDemandas(page, limit, status, direction) ==
    /\ Alive
    /\ nextOp < MaxOps
    /\ nextOp' = nextOp + 1
    /\ \E all \in Ordered(Matching(demandas, status), ToUpperCase(direction) = "ASC") :
         counts' = counts \cup
            {[op |-> nextOp + 1, page |-> page, limit |-> limit, status |-> status,
              offered |-> all,
              rows |-> LimitOffset(all, limit, (page - 1) * limit)]}
    /\ UNCHANGED <<demandas, seq, auditoria, backups, files, writes, audits, snaps,
                   restores, last, listResp, searches,
                   searchResp, proc, now>>

\* SELECT COUNT(*) FROM demandas WHERE ...: the one row it returns.
CountRow(T, status) == "COUNT(*)" :> Cardinality(Matching(T, status))

\* The COUNT query and its callback, which sends the response.
ListCount(c) ==
    /\ Alive
    /\ c \in counts
    /\ counts' = counts \ {c}
    /\ LET countRow == CountRow(demandas, c.status)
       IN  listResp' =
             [op |-> c.op, page |-> c.page, limit |-> c.limit, rows |-> c.rows,
              total |-> Field(countRow, "count"),
              pages |-> CeilDiv(Field(countRow, "count"), c.limit),
              offered |-> c.offered]
    /\ last' = Response(c.op, "list", 200, TRUE, 0)
    /\ UNCHANGED <<demandas, seq, auditoria, backups, files, writes, audits, snaps,
                   restores, searches, searchResp, proc, nextOp, now>>

-----------------------------------------------------------------------------
(* GET /api/demandas/search *)

\* The columns of CREATE TABLE demandas, and the columns the search names.
DemandasColumns ==
    {"id", "funcionarioId", "nomeFuncionario", "emailFuncionario", "categoria",
     "prioridade", "complexidade", "descricao", "local", "dataCriacao", "dataLimite",
     "status", "isRotina", "diasSemana", "tag", "comentarios", "comentarioGestor",
     "dataConclusao", "atribuidos", "dataAtualizacao", "criadoPor", "atualizadoPor"}
SearchWhere == <<"nomeDemanda", "descricao", "tag">>
SearchColumns == Range(SearchWhere) \cup {"dataLimite"}

\* The statement compiles only when every column it names exists.
SearchPrepares == SearchColumns \subseteq DemandasColumns

\* text LIKE '%q%', for a term in the case of the stored text
Like(text, q) ==
    \E i \in 0..(Len(text) - Len(q)) : SubSeq(text, i + 1, i + Len(q)) = q

\* CASE WHEN nomeDemanda LIKE ? THEN 1 WHEN descricao LIKE ? THEN 2 ELSE 3 END
SearchRank(r, q) ==
    IF Like(r[SearchWhere[1]], q) THEN 1
    ELSE IF Like(r[SearchWhere[2]], q) THEN 2 ELSE 3

\* The results the SELECT allows: the rows with a matching column, by rank
\* and then by dataLimite, rows with equal keys in either order.
SearchRows(T, q) ==
    LET S == {r \in T : \E i \in DOMAIN SearchWhere : Like(r[SearchWhere[i]], q)}
    IN  { f \in [1..Cardinality(S) -> S] :
            /\ \A i, j \in 1..Cardinality(S) : i # j => f[i] # f[j]
            /\ \A i, j \in 1..Cardinality(S) :
                 i < j => \/ SearchRank(f[i], q) < SearchRank(f[j], q)
                          \/ /\ SearchRank(f[i], q) = SearchRank(f[j], q)
                             /\ f[i].dataLimite <= f[j].dataLimite }

\* The handler: a query shorter than MinQuery is answered at once, any other
\* issues the SELECT.
SearchDemandas(q) ==
    /\ Alive
    /\ nextOp < MaxOps
    /\ nextOp' = nextOp + 1
    /\ IF Len(q) < MinQuery
       THEN /\ last' = Response(nextOp + 1, "search", 200, TRUE, 0)
            /\ searchResp' = [op |-> nextOp + 1, q |-> q, data |-> <<>>]
            /\ UNCHANGED searches
       ELSE /\ searches' = searches \cup {[op |-> nextOp + 1, q |-> q]}
            /\ UNCHANGED <<last, searchResp>>
    /\ UNCHANGED <<demandas, seq, auditoria, backups, files, writes, audits, snaps,
                   restores, counts, listResp, proc, now>>

\* The SELECT and its callback.
SearchResult(s) ==
    /\ Alive
    /\ s \in searches
    /\ searches' = searches \ {s}
    /\ IF ~SearchPrepares
       THEN /\ last' = Response(s.op, "search", 500, TRUE, 0)
            /\ UNCHANGED searchResp
       ELSE /\ last' = Response(s.op, "search", 200, TRUE, 0)
            /\ \E rows \in SearchRows(demandas, s.q) :
                  searchResp' = [op |-> s.op, q |-> s.q, data |-> rows]
    /\ UNCHANGED <<demandas, seq, auditoria, backups, files, writes, audits, snaps,
                   restores, counts, listResp, proc, nextOp, now>>

-----------------------------------------------------------------------------
(* process.on('SIGINT') and process.on('SIGTERM') *)

\* SIGINT: the final snapshot is started; its callback exits.
Sigint ==
    /\ Alive
    /\ nextOp < MaxOps
    /\ nextOp' = nextOp + 1
    /\ snaps' = snaps \cup {criarBackup(nextOp + 1, "shutdown", "sigint", now)}
    /\ UNCHANGED <<demandas, seq, auditoria, backups, files, writes, audits, restores,
                   counts, last, listResp, searches, searchResp, proc, now>>

\* SIGTERM: process.exit(0)
Sigterm ==
    /\ Alive
    /\ nextOp < MaxOps
    /\ nextOp' = nextOp + 1
    /\ proc' = "exited"
    /\ UNCHANGED <<demandas, seq, auditoria, backups, files, writes, audits, snaps,
                   restores, counts, last, listResp, searches, searchResp, now>>

-----------------------------------------------------------------------------

RequestIds == 1..3
Terms == {"", "a", "xx", "T1"}
BackupIds == {0, GoodId, GarbageId, NoListId, GoneId, UnknownId}
Tipos == {"manual", "auto"}
Queries ==
    { [page |-> 1, limit |-> 1, status |-> "", direction |-> "asc"],
      [page |-> 2, limit |-> 1, status |-> "", direction |-> "DESC"],
      [page |-> 1, limit |-> 2, status |-> "", direction |-> "DESC"],
      [page |-> 2, limit |-> 2, status |-> "", direction |-> "ASC"],
      [page |-> 1, limit |-> 1, status |-> "pendente", direction |-> "DESC"],
      [page |-> 2, limit |-> 1, status |-> "pendente", direction |-> "ASC"] }

Next ==
    \/ \E d \in Bodies : CreateDemanda(d)
    \/ \E id \in RequestIds, d \in Bodies : UpdateDemanda(id, d)
    \/ \E w \in writes : UpdateWrite(w)
    \/ \E id \in RequestIds : DeleteDemanda(id)
    \/ \E w \in writes : DeleteWrite(w)
    \/ \E a \in audits, ok \in BOOLEAN : AuditInsert(a, ok)
    \/ \E tipo \in Tipos : BackupRequest(tipo)
    \/ AutoBackupTimer
    \/ \E s \in snaps, ok \in BOOLEAN : SnapRead(s, ok)
    \/ \E s \in snaps, ok \in BOOLEAN : SnapWrite(s, ok)
    \/ \E s \in snaps : SnapRegister(s)
    \/ \E s \in snaps : SnapPruneSelect(s)
    \/ \E s \in snaps : SnapPruneDelete(s)
    \/ \E id \in BackupIds : RestoreBackup(id)
    \/ \E r \in restores : RestoreDelete(r)
    \/ \E r \in restores : RestoreInsert(r)
    \/ \E q \in Queries : ListDemandas(q.page, q.limit, q.status, q.direction)
    \/ \E c \in counts : ListCount(c)
    \/ \E q \in Terms : SearchDemandas(q)
    \/ \E s \in searches : SearchResult(s)
    \/ Sigint
    \/ Sigterm
    \/ Tick

Spec == Init /\ [][Next]_vars

-----------------------------------------------------------------------------
(* Properties *)

\* The step in which the UPDATE of write w ran and was answered with success.
UpdateSucceeds(w) ==
    /\ w \in writes
    /\ w.kind = "update"
    /\ w \notin writes'
    /\ last' = Response(w.op, "update", 200, TRUE, w.id)

\* C1: a successful update leaves the id, dataCriacao and criadoPor of the
\* stored record as they were, whatever the body supplied for them.
C1_UpdateKeepsProtected ==
    [][\A w \in writes : UpdateSucceeds(w) =>
          \A r \in demandas : r.id = w.id =>
             /\ \E r2 \in demandas' :
                   /\ r2.id = r.id
                   /\ r2.dataCriacao = r.dataCriacao
                   /\ r2.criadoPor = r.criadoPor
             /\ Cardinality({r2 \in demandas' : r2.id = r.id}) = 1]_vars

\* R1 updated by the body that supplies id, dataCriacao and criadoPor.
C1_Witness ==
    /\ last = Response(last.op, "update", 200, TRUE, 1)
    /\ \E r \in demandas :
          /\ r.id = 1 /\ r.tag = "T3" /\ r.dataAtualizacao = now
          /\ r.dataCriacao = R1.dataCriacao /\ r.criadoPor = R1.criadoPor

\* The rows of a table or list without their ids.
WithoutIds(S) == {Without(r, {"id"}) : r \in S}

\* C2: once a restore has been answered with success and all of its inserts
\* have run, the record set equals the snapshot's record list in every field
\* except the id.
C2_RestoreYieldsSnapshot ==
    (/\ last.kind = "restore"
     /\ last.status = 200
     /\ \A r \in restores : r.op # last.op)
    => \E b \in backups :
          /\ b.id = last.id
          /\ b.nomeArquivo \in DOMAIN files
          /\ WithoutIds(demandas) = WithoutIds(Range(files[b.nomeArquivo].demandas))

\* The KeepAuto most recently created automatic entries of an index.
Newest(B, keep) == {AutoRows(B) \ R : R \in BeyondNewest(B, keep)}

\* C3: when the pruning step of an automatic snapshot has run, the index
\* holds the KeepAuto most recently created automatic entries and no other.
C3_PruneKeepsNewest ==
    [][\A s \in snaps : (s.stage = "delete" /\ s \notin snaps') =>
          AutoRows(backups') \in Newest(backups, KeepAuto)]_vars

\* C4: a create whose body passes validation is answered with success and
\* adds exactly one record, with status pendente and a generated tag where
\* the body gave none.
C4_ValidCreateSucceeds ==
    [][\A d \in Bodies : (CreateDemanda(d) /\ validarDemanda(d, now) = {}) =>
          /\ last' = Response(nextOp', "create", 200, TRUE, last'.id)
          /\ \E r \in demandas' \ demandas :
                /\ demandas' = demandas \cup {r}
                /\ Falsy(d, "status") => r.status = "pendente"
                /\ Falsy(d, "tag") => r.tag = GeneratedTag(nextOp')]_vars

\* C5: a delete of an id that is not stored answers 404, changes no record,
\* issues no audit entry and starts no snapshot.
C5_DeleteMissing ==
    [][\A id \in RequestIds : (DeleteDemanda(id) /\ id \notin Ids(demandas)) =>
          /\ last' = Response(nextOp', "delete", 404, TRUE, id)
          /\ UNCHANGED <<demandas, seq, auditoria, audits, snaps, writes, files,
                         backups>>]_vars

C5_Witness ==
    /\ last.kind = "delete" /\ last.status = 404
    /\ demandas = {R1, R2}
    /\ audits = {} /\ auditoria = {} /\ snaps = {} /\ writes = {}

\* The rules of the validation gate, on the text as sent.
BreaksRule(d, hoje) ==
    \/ ~Has(d, "nomeDemanda") \/ Len(d.nomeDemanda) < MinNome
    \/ ~Has(d, "categoria") \/ d.categoria = ""
    \/ ~Has(d, "prioridade") \/ d.prioridade \notin Prioridades
    \/ ~Has(d, "complexidade") \/ d.complexidade \notin Complexidades
    \/ ~Has(d, "descricao") \/ Len(d.descricao) < MinDescricao
    \/ ~Has(d, "local") \/ d.local = ""
    \/ ~Has(d, "dataLimite") \/ d.dataLimite < hoje

StoreUntouched ==
    UNCHANGED <<demandas, seq, auditoria, audits, snaps, writes, files, backups,
                restores, counts>>

Registered(id) == \E b \in backups : b.id = id
Restorable(id) ==
    \E b \in backups :
       /\ b.id = id
       /\ b.nomeArquivo \in DOMAIN files
       /\ files[b.nomeArquivo].json
       /\ files[b.nomeArquivo].hasList

\* C7: a restore that cannot be carried out is answered 404 (unregistered
\* id) or 500 (unreadable, unparsable or list-less file) and changes no record.
C7_FailedRestoreAnswered ==
    [][\A id \in BackupIds \ {0} : (RestoreBackup(id) /\ ~Restorable(id)) =>
          /\ last' = Response(nextOp', "restore",
                              IF Registered(id) THEN 500 ELSE 404, TRUE, id)
          /\ UNCHANGED demandas]_vars

\* C8: no two stored records share a tag, and a create with the tag of a
\* stored record fails, adds no record and issues no audit entry.
UniqueTags ==
    \A r1, r2 \in demandas : r1 # r2 => (r1.tag = NullText \/ r1.tag # r2.tag)
C8_TagsUnique ==
    /\ []UniqueTags
    /\ [][\A d \in Bodies :
            (CreateDemanda(d) /\ Has(d, "tag") /\ \E r \in demandas : r.tag = d.tag)
            => /\ last'.status \in {400, 500}
               /\ UNCHANGED <<demandas, auditoria, audits>>]_vars

\* An update that asked for the tag of another record was refused.
C8_Witness ==
    /\ last.kind = "update" /\ last.status = 500
    /\ demandas = {R1, R2}
    /\ auditoria = {} /\ audits = {}

\* C10: the response holds the records at positions (p-1)n+1 .. min(pn, T) of
\* the requested order, total = T and pages = ceil(T/n).
C10_Pagination ==
    (last.kind = "list" /\ last.op = listResp.op) =>
       LET T == Len(listResp.offered)
           p == listResp.page
           n == listResp.limit
       IN  /\ listResp.rows =
                SubSeq(listResp.offered, (p - 1) * n + 1, IF p * n < T THEN p * n ELSE T)
           /\ listResp.total = JsNum(T)
           /\ listResp.pages = JsNum((T + n - 1) \div n)

\* C11: a search with a query shorter than MinQuery answers an empty list and
\* issues no statement; any other search is answered with success and a list
\* of stored records that holds every record whose tag contains the query.
C11_Search ==
    [][/\ \A q \in Terms : (SearchDemandas(q) /\ Len(q) < MinQuery) =>
             /\ last' = Response(nextOp', "search", 200, TRUE, 0)
             /\ searchResp' = [op |-> nextOp', q |-> q, data |-> <<>>]
             /\ UNCHANGED searches
       /\ \A s \in searches : SearchResult(s) =>
             /\ last' = Response(s.op, "search", 200, TRUE, 0)
             /\ searchResp'.op = s.op
             /\ {r \in demandas : Like(r.tag, s.q)} \subseteq Range(searchResp'.data)
             /\ Range(searchResp'.data) \subseteq demandas]_vars

\* C12: the audit INSERT and every step of a snapshot started by a mutation
\* leave the records and the response as they are, whether they succeed or
\* fail, and the step that applies a mutation is the step that answers it
\* with success, before its audit INSERT or snapshot has run.
C12_SideEffectsIndependent ==
    [][/\ \A a \in audits : a \notin audits' => UNCHANGED <<demandas, last>>
       /\ \A s \in snaps : (s.cb = "none" /\ s \notin snaps') =>
             UNCHANGED <<demandas, last>>
       /\ \A w \in writes : (w \notin writes' /\ audits' # audits) =>
             /\ last' = Response(w.op, w.kind, 200, TRUE, w.id)
             /\ audits \subseteq audits'
             /\ snaps \subseteq snaps']_vars

\* R1 approved by an update whose audit INSERT failed and whose status_change
\* snapshot failed before writing a file.
C12_Witness ==
    /\ last = Response(last.op, "update", 200, TRUE, 1)
    /\ \E r \in demandas : r.id = 1 /\ r.status = "aprovada"
    /\ writes = {} /\ audits = {} /\ snaps = {}
    /\ auditoria = {}
    /\ DOMAIN files = DOMAIN ManualFiles

\* C13: when the callback of the SIGINT snapshot exits the process, the
\* snapshot has failed or its file is written and its index entry registered;
\* SIGINT itself does not exit; SIGTERM exits and starts no snapshot.
C13_Shutdown ==
    [][/\ \A s \in snaps :
             (/\ s.cb = "sigint" /\ s \notin snaps' /\ proc' = "exited"
              /\ s.name \in DOMAIN files')
             => \E b \in backups' : b.nomeArquivo = s.name /\ b.tipo = s.tipo
       /\ Sigint => (proc' = "running")
       /\ Sigterm => (proc' = "exited" /\ UNCHANGED <<snaps, files, backups>>)]_vars

\* C14: a write that finds its record issues exactly one audit entry, of its
\* kind and for its record; a write that finds no record issues none.
C14_AuditOneToOne ==
    [][\A w \in writes : (w \notin writes' /\ last'.status = 200) =>
          IF w.id \in Ids(demandas)
          THEN \E a \in audits' \ audits :
                  /\ audits' = audits \cup {a}
                  /\ a.op = w.op
                  /\ a.registroId = w.id
                  /\ a.acao = IF w.kind = "update" THEN "UPDATE" ELSE "DELETE"
          ELSE UNCHANGED audits]_vars

\* C15: when the index INSERT of a snapshot whose file was written has run,
\* the index holds an entry with the snapshot's file name and kind.
C15_SnapshotRegistered ==
    [][\A s \in snaps : (s.stage = "register" /\ s \notin snaps') =>
          \E b \in backups' : b.nomeArquivo = s.name /\ b.tipo = s.tipo]_vars

\* C16: an UPDATE or DELETE that finds no record with its id answers 404,
\* issues no audit entry and starts no snapshot.
C16_WriteOfMissingNotFound ==
    [][\A w \in writes : (w \notin writes' /\ w.id \notin Ids(demandas)) =>
          /\ last' = Response(w.op, w.kind, 404, TRUE, w.id)
          /\ UNCHANGED <<audits, snaps>>]_vars

\* C17: a successful update starts a status_change snapshot exactly when the
\* stored status after it is aprovada or reprovada.
C17_SnapshotOnStoredStatus ==
    [][\A w \in writes : UpdateSucceeds(w) =>
          \A r \in demandas' : r.id = w.id =>
             (r.status \in CriticalStatus
                <=> criarBackup(w.op, "status_change", "none", now) \in snaps' \ snaps)]_vars

\* C18: a successful update leaves every stored field that the body does not
\* supply, other than dataAtualizacao and atualizadoPor, as it was.
C18_UnsuppliedKept ==
    [][\A w \in writes : UpdateSucceeds(w) =>
          \A r \in demandas : r.id = w.id =>
             \E r2 \in demandas' :
                /\ r2.id = r.id
                /\ \A f \in DOMAIN r \ (DOMAIN w.d \cup {"dataAtualizacao", "atualizadoPor"}) :
                      r2[f] = r[f]]_vars

====
